---- MODULE Spec2Model ----
(***************************************************************************)
(* Realtime sync core of sportstream: the optimistic sync engine           *)
(* (useAdvancedSync), its TTL cache (OptimizedCache), the camera store and *)
(* the director's setActiveCamera, the event-state projector               *)
(* (useRealtimeEventUpdates), the connection manager                       *)
(* (RealtimeConnectionManager) and the presence hook (useRealtimePresence).*)
(*                                                                         *)
(* JavaScript runs one callback at a time: every action below is the code  *)
(* that runs between two awaits (or one timer / channel callback).         *)
(***************************************************************************)
EXTENDS Integers, Sequences, FiniteSets, TLC

\* ------------------------------------------------------------------ bounds
MaxCalls == 2        \* optimisticUpdate calls made by callers of the engine
MaxTicks == 1        \* clock advances
MaxRetryAttempts == 1   \* options.retryAttempts the engine is constructed with
MaxSwitches == 2     \* setActiveCamera calls made by directors
MaxTime == 35000     \* the last millisecond at which a timer is run
MaxMissed == 2       \* camera switches made while the projector is cut off
MaxChannels == 3     \* runs of the presence hook's channel effect
MaxSize == 2         \* maxSize of the cache exercised on its own
DefaultTTL == 2      \* its defaultTTL, in ms
MaxCacheTime == 2    \* the last millisecond of its clock
MaxTasks == 3        \* async calls of the engine suspended at once
MaxFails == 3        \* failed writes counted per optimisticUpdate call
MaxHits == 1
MaxEventUpdates == 3
MaxEvTasks == 1         \* hits counted per entry

\* ------------------------------------------------------- program constants
EngineCacheMaxSize == 500     \* useAdvancedSync: useOptimizedCache({maxSize: 500, ...})
EngineCacheTTL == 600000      \* useAdvancedSync: ttl: 10 * 60 * 1000
RetryAttempts == 3            \* useAdvancedSync: defaultOptions.retryAttempts
ProjCacheMaxSize == 200       \* useRealtimeEventUpdates: useOptimizedCache({maxSize: 200, ...})
ProjCacheTTL == 300000        \* useRealtimeEventUpdates: ttl: 5 * 60 * 1000
MaxReconnectAttempts == 10    \* useRealtimeEventUpdates: maxReconnectAttempts: 10
ReconnectDelay == 1000        \* RealtimeConnectionManager: reconnectDelay: 1000
HeartbeatInterval == 30000    \* useRealtimeEventUpdates: heartbeatInterval: 30000
PollInterval == 5000          \* initializeConnection: setInterval(..., 5000)
\* the round trips of the latency ping, in ms
Latencies == {50, 200, 400}

\* ----------------------------------------------------------- JS data values
\* A JS object is a function from its own property names to values; null and
\* undefined are the value Null.
Null == [null |-> TRUE]
EmptyObj == [f \in {} |-> TRUE]

\* { ...a, ...b }: spreading null or undefined contributes nothing
Obj(a) == IF a = Null THEN EmptyObj ELSE a
Spread(a, b) ==
  [f \in (DOMAIN Obj(a)) \cup (DOMAIN Obj(b)) |->
     IF f \in DOMAIN Obj(b) THEN Obj(b)[f] ELSE Obj(a)[f]]

\* Times are ISO strings (server columns, toISOString) or numbers (Date.now).
Iso(t) == <<"iso", t>>
Num(t) == <<"num", t>>

\* JS truthiness of a time value: the number 0 is falsy, a string is not
Truthy(v) == v # Num(0)

\* a > b in JS: two strings compare lexicographically (ISO strings of one
\* format: chronologically), two numbers numerically; a date string against
\* a number converts the string to NaN and the comparison is false.
JsGreater(a, b) == IF a[1] = b[1] THEN a[2] > b[2] ELSE FALSE

\* d.updated_at || d.timestamp || 0
TimeOf(d) ==
  IF "updated_at" \in DOMAIN d /\ Truthy(d.updated_at) THEN d.updated_at
  ELSE IF "timestamp" \in DOMAIN d /\ Truthy(d.timestamp) THEN d.timestamp
  ELSE Num(0)

\* ------------------------------------------------------------- sequences
RemoveAt(s, i) == [j \in 1..(Len(s) - 1) |-> IF j < i THEN s[j] ELSE s[j + 1]]

\* ------------------------------------------------- OptimizedCache (a Map)
\* The Map is the sequence of its entries in insertion order; an entry is
\* [key, data, timestamp, expiresAt, hits].
\* the position of key k, 0 when the Map has no such key
CacheIndex(c, k) ==
  IF \E i \in 1..Len(c) : c[i].key = k
  THEN CHOOSE i \in 1..Len(c) : c[i].key = k
  ELSE 0

\* score(a) < score(b) for score = (now - timestamp) / (hits + 1)
ScoreLess(a, b, t) == (t - a.timestamp) * (b.hits + 1) < (t - b.timestamp) * (a.hits + 1)

EvictFirstIndex(c, t) == IF c = <<>> THEN 0 ELSE 1
\* evictOldest: the first entry, in iteration order, of strictly lowest score
EvictIndex(c, t) ==
  IF c = <<>> THEN 0
  ELSE CHOOSE i \in 1..Len(c) :
         /\ \A j \in 1..Len(c) : ~ScoreLess(c[j], c[i], t)
         /\ \A j \in 1..(i - 1) : ScoreLess(c[i], c[j], t)

EvictOldest(c, t) == IF c = <<>> THEN c ELSE RemoveAt(c, EvictIndex(c, t))

\* set(key, data, ttl): ttl = 0 stands for an omitted ttl (ttl || defaultTTL)
CacheSet(c, k, d, ttl, t, maxSize, defaultTTL) ==
  LET c1 == IF Len(c) >= maxSize THEN EvictOldest(c, t) ELSE c
      e == [key |-> k, data |-> d, timestamp |-> t,
            expiresAt |-> t + (IF ttl # 0 THEN ttl ELSE defaultTTL), hits |-> 0]
      i == CacheIndex(c1, k)
  IN IF i = 0 THEN Append(c1, e) ELSE [c1 EXCEPT ![i] = e]

CacheGetValueNoExpiry(c, k, t) ==
  LET i == CacheIndex(c, k) IN IF i = 0 THEN Null ELSE c[i].data
\* get(key): the value returned ...
CacheGetValue(c, k, t) ==
  LET i == CacheIndex(c, k)
  IN IF i = 0 THEN Null
     ELSE IF t > c[i].expiresAt THEN Null
     ELSE c[i].data

\* ... and the Map after the call (expired entry deleted, or hits++)
CacheAfterGet(c, k, t) ==
  LET i == CacheIndex(c, k)
  IN IF i = 0 THEN c
     ELSE IF t > c[i].expiresAt THEN RemoveAt(c, i)
     ELSE [c EXCEPT ![i].hits = @ + 1]

\* delete(key)
CacheDelete(c, k) ==
  LET i == CacheIndex(c, k) IN IF i = 0 THEN c ELSE RemoveAt(c, i)

\* the keys, values and ttl arguments of the cache exercised on its own; a
\* ttl of 0 is an omitted ttl
CacheKeys == {"a", "b", "c"}
CacheValues == {[label |-> "x"], [label |-> "y"]}
CacheTtls == {0, 1}
NoSet == [set |-> FALSE]
NoOp == [op |-> "none"]

\* ------------------------------------------------------------------ state
VARIABLE now              \* Date.now() and the server's now()
VARIABLE store            \* cameras table: id -> row, Null when there is no row
\* useAdvancedSync
VARIABLE options          \* SyncOptions of the engine instance
VARIABLE cache            \* the engine's OptimizedCache
VARIABLE pendingUpdates   \* Map updateId -> PendingUpdate, in insertion order
VARIABLE conflicts        \* ConflictEvent[]
VARIABLE isSyncing
VARIABLE lastSyncTime
VARIABLE tasks            \* async calls of the engine suspended at an await
VARIABLE hist             \* history: per optimisticUpdate call, how often its
                          \* syncUpdate threw and whether it ever resolved

\* realtime (postgres_changes on cameras)
VARIABLE notes            \* row-change notifications on their way to the projector
\* useRealtimeEventUpdates (the projector)
VARIABLE subscribed       \* the camera channel is joined
VARIABLE cameras          \* the cameras state (useState<Camera[]>([]))
VARIABLE projCache        \* the projector's own OptimizedCache
VARIABLE projTasks        \* handleCameraUpdate / loadCameras calls awaiting the select
\* DirectorDashboard
VARIABLE dirTasks         \* setActiveCamera calls suspended at an await
VARIABLE switched         \* history: the setActiveCamera calls that have ended
VARIABLE selectedCameraId
\* RealtimeConnectionManager / useRealtimeConnection
VARIABLE transportUp      \* supabase.realtime.isConnected()
VARIABLE stats            \* ConnectionStats: the manager's object, which is
                          \* also the hook's stats state after setStats
VARIABLE latencyMeasurements
VARIABLE timers           \* pending setInterval / setTimeout callbacks and pings
VARIABLE missed           \* history: row changes made while the transport was down

syncVars == <<options, cache, pendingUpdates, conflicts, isSyncing, lastSyncTime, tasks, hist>>
projVars == <<subscribed, cameras, projCache, projTasks>>
dirVars == <<dirTasks, switched, selectedCameraId>>
\* useRealtimePresence
VARIABLE channel          \* the channel state: the channel the last effect run
                          \* made, 0 for null
VARIABLE handlerChannel   \* the channel in the closure of the registered
                          \* handlePresenceSync, 0 for null
VARIABLE presence         \* channel -> what its presenceState() returns
VARIABLE presenceState    \* the presenceState state
VARIABLE onlineUsers      \* the onlineUsers state
VARIABLE delivered        \* history: <<the last sync payload of the present channel>>
VARIABLE repeated         \* history: the last sync carried the payload of the one before
VARIABLE usersBefore           \* history: onlineUsers before the last sync

VARIABLE collaborationIndicators   \* the collaborationIndicators state
VARIABLE lastLeave        \* history: the user_ids of the leave event just handled
                          \* and how many indicators it removed

NoLeave == [users |-> {}, removed |-> 0]
presVars == <<channel, handlerChannel, presence, presenceState, onlineUsers,
              delivered, repeated, usersBefore, collaborationIndicators, lastLeave>>
\* useAdvancedSync as React renders it
VARIABLE rendered         \* the pendingUpdates and isSyncing state of the last
                          \* committed render, which its callbacks are closed over

flushVars == <<rendered>>
\* an OptimizedCache on its own
VARIABLE ttlCache         \* the Map of the instance, in insertion order
VARIABLE lastSet          \* history: key -> the last set(key, ...) that no
                          \* delete(key) or clear() followed
VARIABLE lastOp           \* history: the call just made and what it returned

cacheVars == <<ttlCache, lastSet, lastOp>>
connVars == <<transportUp, stats, latencyMeasurements, timers, missed>>
VARIABLE eventRow         \* the row of the event in the events table
VARIABLE event            \* the event state (useState<EventData | null>(null))
VARIABLE eventNotes       \* UPDATE notifications of the events row on their way
VARIABLE evTasks          \* loadEventData / handleCameraSwitch calls awaiting a select
VARIABLE statusReports    \* history: the streamStarted / streamEnded reports made
VARIABLE transitions      \* history: the 'live' / 'ended' statuses the row has moved to
VARIABLE switchLogs       \* the switch_logs rows of the event
VARIABLE switchNotes      \* INSERT notifications of switch_logs on their way
VARIABLE switchCalls      \* history: the onCameraSwitch calls made
evVars == <<eventRow, event, eventNotes, evTasks, statusReports, transitions,
            switchLogs, switchNotes, switchCalls>>

VARIABLE conflictEvent    \* the ConflictEvent resolveConflict is called with
VARIABLE returned         \* <<what the call returned>>, <<>> before the call
resVars == <<conflictEvent, returned>>

vars == <<now, store, notes, syncVars, projVars, dirVars, connVars, presVars, cacheVars, flushVars, evVars, resVars>>

\* the cameras of the event, in created_at order
RecSeq == <<"A", "B">>
Recs == {RecSeq[i] : i \in 1..Len(RecSeq)}
Strategies == {"last-write-wins", "merge", "user-choice", "operational-transform"}
Operations == {"insert", "update", "delete"}

CacheKey(table, id) == <<table, id>>

\* ------------------------------------------------------------ the store
\* A row of cameras as the server returns it.
Row(id, active, t) == [id |-> id, is_active |-> active, updated_at |-> Iso(t)]

\* UPDATE cameras SET data WHERE id = r: no row, no change; the BEFORE UPDATE
\* trigger update_cameras_updated_at stamps updated_at = now().
StoreUpdate(s, r, data, t) ==
  IF s[r] = Null THEN s
  ELSE [s EXCEPT ![r] = Spread(Spread(s[r], data), [updated_at |-> Iso(t)])]

\* INSERT INTO cameras: is_active and updated_at take their column defaults
StoreInsert(s, r, data, t) ==
  [s EXCEPT ![r] = Spread(Row(r, FALSE, t), data)]

StoreDelete(s, r) == [s EXCEPT ![r] = Null]

\* The postgres_changes payloads a write publishes to a joined channel, one
\* per row the statement touched (a row rewritten with equal values
\* included); payload.new of a DELETE carries no row.
Payload(eventType, row) == [eventType |-> eventType, new |-> row]

UpdateNotes(s, s2, ids) ==
  LET touched == SelectSeq(ids, LAMBDA r : s[r] # Null)
  IN [j \in 1..Len(touched) |-> Payload("UPDATE", s2[touched[j]])]

ApplyNotes(s, s2, u) ==
  CASE u.operation = "insert" -> <<Payload("INSERT", s2[u.data.id])>>
    [] u.operation = "update" -> UpdateNotes(s, s2, <<u.data.id>>)
    [] u.operation = "delete" ->
         IF s[u.data.id] = Null THEN <<>> ELSE <<Payload("DELETE", EmptyObj)>>

Publish(ns) == IF subscribed /\ transportUp THEN notes \o ns ELSE notes

StoreApply(s, u, t) ==
  CASE u.operation = "insert" -> StoreInsert(s, u.data.id, u.data, t)
    [] u.operation = "update" -> StoreUpdate(s, u.data.id, u.data, t)
    [] u.operation = "delete" -> StoreDelete(s, u.data.id)

\* ------------------------------------------------- pendingUpdates (a Map)
MapIndex(m, id) ==
  IF \E i \in 1..Len(m) : m[i].id = id
  THEN CHOOSE i \in 1..Len(m) : m[i].id = id
  ELSE 0
MapSet(m, u) == LET i == MapIndex(m, u.id)
                IN IF i = 0 THEN Append(m, u) ELSE [m EXCEPT ![i] = u]
MapDelete(m, id) == LET i == MapIndex(m, id)
                    IN IF i = 0 THEN m ELSE RemoveAt(m, i)

\* ------------------------------------------------------- useAdvancedSync
\* optimisticUpdate that caches the changes alone, dropping the fields of the
\* record cached before
OptimisticCacheApplyNoMerge(c, id, updates, operation, t) ==
  LET k == CacheKey("cameras", id)
      c1 == CacheAfterGet(c, k, t)
      c2 == CacheAfterGet(c1, k, t)
  IN CASE operation = "update" ->
            CacheSet(c2, k, updates, 0, t, EngineCacheMaxSize, EngineCacheTTL)
       [] operation = "delete" -> CacheDelete(c1, k)
       [] OTHER -> c1

\* optimisticUpdate, lines 84-91: the cache after the synchronous portion
\* (line 70 reads originalData first, which counts as a hit)
OptimisticCacheApply(c, id, updates, operation, t) ==
  LET k == CacheKey("cameras", id)
      c1 == CacheAfterGet(c, k, t)
      currentData == CacheGetValue(c1, k, t)
      c2 == CacheAfterGet(c1, k, t)
      mergedData == Spread(currentData, updates)
  IN CASE operation = "update" ->
            CacheSet(c2, k, mergedData, 0, t, EngineCacheMaxSize, EngineCacheTTL)
       [] operation = "delete" -> CacheDelete(c1, k)
       [] OTHER -> c1

\* the PendingUpdate built at lines 66-80; n is the serial number of the call
\* in hist and plays no part in the engine's behaviour
NewPendingUpdate(id, updates, operation, n) ==
  [id |-> <<"cameras", id, now>>, n |-> n, table |-> "cameras",
   operation |-> operation, data |-> Spread([id |-> id], updates),
   originalData |-> CacheGetValue(cache, CacheKey("cameras", id), now),
   timestamp |-> now, retryCount |-> 0]

\* An async call suspended at an await.  kind "opt": optimisticUpdate awaiting
\* syncUpdate(u); kind "flush": syncPendingUpdates awaiting syncUpdate(u) with
\* queue still to go and failed collected so far.  ph is the await inside
\* syncUpdate: "write" (lines 117-123), "fetch" (handleConflict, line 146),
\* "apply" (line 167).
Frame(kind, u, ph, resolved, queue, failed, idx) ==
  [kind |-> kind, u |-> u, ph |-> ph, resolved |-> resolved,
   queue |-> queue, failed |-> failed, idx |-> idx]

\* optimisticUpdate up to its await, lines 62-96
OptimisticUpdateCall(id, updates, operation) ==
  /\ options.enableOptimisticUpdates
  /\ Len(hist) < MaxCalls
  /\ LET u == NewPendingUpdate(id, updates, operation, Len(hist) + 1)
     IN /\ pendingUpdates' = MapSet(pendingUpdates, u)
        /\ cache' = OptimisticCacheApply(cache, id, updates, operation, now)
        /\ tasks' = Append(tasks, Frame("opt", u, "write", Null, <<>>, <<>>, 0))
        /\ hist' = Append(hist, [fails |-> 0, confirmed |-> FALSE])
  /\ UNCHANGED <<options, conflicts, isSyncing, lastSyncTime>>

\* a caller of the hook calls optimisticUpdate
OptimisticUpdate(id, updates, operation) ==
  /\ OptimisticUpdateCall(id, updates, operation)
  /\ UNCHANGED <<now, store, notes>>

\* syncPendingUpdates, lines 265-267: the failed list after update u threw
FailedAfterThrow(failed, u) ==
  IF u.retryCount < options.retryAttempts
  THEN Append(failed, [u EXCEPT !.retryCount = @ + 1])
  ELSE failed

\* pendingUpdates once syncUpdate(u) of task i has settled: optimisticUpdate
\* lines 96-104 delete the entry on success and keep it on a throw;
\* syncPendingUpdates line 273 replaces the Map by the failed list when its
\* loop is over
PendingAfterSettled(i, ok) ==
  LET f == tasks[i]
  IN IF f.kind = "opt"
     THEN IF ok THEN MapDelete(pendingUpdates, f.u.id) ELSE pendingUpdates
     ELSE IF f.queue # <<>> THEN pendingUpdates
     ELSE IF ok THEN f.failed ELSE FailedAfterThrow(f.failed, f.u)

\* syncUpdate(u) of task i has settled: ok = it resolved, ~ok = it threw.
\* optimisticUpdate lines 96-104; syncPendingUpdates lines 259-279.
SyncSettled(i, ok) ==
  LET f == tasks[i]
  IN /\ hist' = [hist EXCEPT ![f.u.n] =
                   IF ok THEN [@ EXCEPT !.confirmed = TRUE] ELSE [@ EXCEPT !.fails = @ + 1]]
     /\ pendingUpdates' = PendingAfterSettled(i, ok)
     /\ IF f.kind = "opt"
        THEN /\ tasks' = RemoveAt(tasks, i)
             /\ UNCHANGED <<isSyncing, lastSyncTime>>
        ELSE IF f.queue # <<>>
        THEN /\ tasks' = [tasks EXCEPT ![i] =
                           Frame("flush", Head(f.queue), "write", Null, Tail(f.queue),
                                 IF ok THEN f.failed ELSE FailedAfterThrow(f.failed, f.u), 0)]
             /\ UNCHANGED <<isSyncing, lastSyncTime>>
        ELSE /\ lastSyncTime' = now
             /\ isSyncing' = FALSE
             /\ tasks' = RemoveAt(tasks, i)

IsSync(i, ph) == /\ i \in 1..Len(tasks)
                 /\ tasks[i].kind \in {"opt", "flush"}
                 /\ tasks[i].ph = ph

\* syncUpdate lines 115-127: the write succeeded
WriteOk(i) ==
  /\ IsSync(i, "write")
  /\ tasks[i].u.operation = "insert" => store[tasks[i].u.data.id] = Null
  /\ store' = StoreApply(store, tasks[i].u, now)
  /\ notes' = Publish(ApplyNotes(store, store', tasks[i].u))
  /\ SyncSettled(i, TRUE)
  /\ UNCHANGED <<now, options, cache, conflicts>>

\* syncUpdate lines 128-133: the write threw a conflict-class error (code
\* 23505 or a message containing 'conflict'); handleConflict starts its fetch
WriteConflict(i) ==
  /\ IsSync(i, "write")
  /\ tasks[i].u.operation # "insert" => store[tasks[i].u.data.id] # Null
  /\ tasks' = [tasks EXCEPT ![i].ph = "fetch"]
  /\ UNCHANGED <<now, store, notes, options, cache, pendingUpdates, conflicts,
                 isSyncing, lastSyncTime, hist>>

\* syncUpdate lines 134-136: the write threw any other error
WriteError(i) ==
  /\ IsSync(i, "write")
  /\ SyncSettled(i, FALSE)
  /\ UNCHANGED <<now, store, notes, options, cache, conflicts>>

\* handleConflict lines 152-159
ConflictEvent(u, serverData) ==
  [table |-> u.table, recordId |-> u.data.id, localData |-> u.data,
   remoteData |-> serverData, baseData |-> u.originalData,
   strategy |-> options.conflictResolution]

\* resolveConflict lines 180-184 read remoteData.updated_at: a TypeError when
\* the fetch returned no row
ResolveThrows(conflict) ==
  conflict.strategy = "last-write-wins" /\ conflict.remoteData = Null

\* the tie goes to the local data
ResolveConflictLocalOnTie(conflict, t) ==
  LET localData == conflict.localData
      remoteData == conflict.remoteData
  IN CASE conflict.strategy = "last-write-wins" ->
            IF JsGreater(TimeOf(remoteData), TimeOf(localData))
            THEN remoteData ELSE localData
       [] conflict.strategy = "merge" ->
            Spread(Spread(remoteData, localData), [updated_at |-> Iso(t)])
       [] conflict.strategy = "operational-transform" -> localData
       [] conflict.strategy = "user-choice" -> Null
       [] OTHER -> localData

\* resolveConflict lines 179-204: the value returned (Null for user-choice)
ResolveConflict(conflict, t) ==
  LET localData == conflict.localData
      remoteData == conflict.remoteData
  IN CASE conflict.strategy = "last-write-wins" ->
            IF JsGreater(TimeOf(localData), TimeOf(remoteData))
            THEN localData ELSE remoteData
       [] conflict.strategy = "merge" ->
            Spread(Spread(remoteData, localData), [updated_at |-> Iso(t)])
       [] conflict.strategy = "operational-transform" -> localData
       [] conflict.strategy = "user-choice" -> Null
       [] OTHER -> localData

\* handleConflict lines 146-172 after the fetch returned: found = the select
\* answered with the row, ~found = it answered without data
FetchReturns(i, found) ==
  /\ IsSync(i, "fetch")
  /\ LET u == tasks[i].u
         serverData == IF found THEN store[u.data.id] ELSE Null
         conflict == ConflictEvent(u, serverData)
         resolvedData == ResolveConflict(conflict, now)
     IN IF ResolveThrows(conflict)
        THEN /\ SyncSettled(i, FALSE)
             /\ UNCHANGED <<cache, conflicts>>
        ELSE /\ conflicts' = IF conflict.strategy = "user-choice"
                             THEN Append(conflicts, conflict) ELSE conflicts
             /\ IF resolvedData = Null
                THEN /\ SyncSettled(i, TRUE)
                     /\ UNCHANGED cache
                ELSE IF u.operation = "update"
                THEN /\ tasks' = [tasks EXCEPT ![i].ph = "apply",
                                                ![i].resolved = resolvedData]
                     /\ UNCHANGED <<cache, pendingUpdates, isSyncing, lastSyncTime, hist>>
                ELSE /\ cache' = CacheSet(cache, CacheKey(u.table, u.data.id), resolvedData,
                                          0, now, EngineCacheMaxSize, EngineCacheTTL)
                     /\ SyncSettled(i, TRUE)
  /\ UNCHANGED <<now, store, notes, options>>

\* handleConflict lines 167-171: the resolved data was written
ApplyOk(i) ==
  /\ IsSync(i, "apply")
  /\ LET u == tasks[i].u
     IN /\ store' = StoreUpdate(store, u.data.id, tasks[i].resolved, now)
        /\ notes' = Publish(UpdateNotes(store, store', <<u.data.id>>))
        /\ cache' = CacheSet(cache, CacheKey(u.table, u.data.id), tasks[i].resolved,
                             0, now, EngineCacheMaxSize, EngineCacheTTL)
  /\ SyncSettled(i, TRUE)
  /\ UNCHANGED <<now, options, conflicts>>

\* handleConflict line 167 threw: the error leaves syncUpdate
ApplyError(i) ==
  /\ IsSync(i, "apply")
  /\ SyncSettled(i, FALSE)
  /\ UNCHANGED <<now, store, notes, options, cache, conflicts>>

\* syncPendingUpdates lines 250-261 as a closure over the state pending and
\* syncing of some render
SyncPendingUpdates(pending, syncing) ==
  /\ Len(pending) # 0
  /\ ~syncing
  /\ isSyncing' = TRUE
  /\ tasks' = Append(tasks, Frame("flush", Head(pending), "write", Null,
                                  Tail(pending), <<>>, 0))
  /\ UNCHANGED <<now, store, notes, options, cache, pendingUpdates, conflicts,
                 lastSyncTime, hist>>

\* syncPendingUpdates run by the interval timer or by forcSync, every state
\* change having been rendered
FlushStart == SyncPendingUpdates(pendingUpdates, isSyncing)

\* forcSync (lines 300-302) or the interval callback (lines 288-290) of the
\* last committed render is called
ForcSync ==
  /\ Len(tasks) < MaxTasks
  /\ SyncPendingUpdates(rendered.pendingUpdates, rendered.isSyncing)
  /\ UNCHANGED rendered

\* React commits a render of the hook: its callbacks are made anew over the
\* present state and the interval effect installs the new syncPendingUpdates
Render ==
  /\ rendered' = [pendingUpdates |-> pendingUpdates, isSyncing |-> isSyncing]
  /\ rendered' # rendered
  /\ UNCHANGED <<now, store, notes, syncVars>>

\* getSyncStats lines 305-312
GetSyncStats ==
  [pendingCount |-> Len(pendingUpdates), conflictCount |-> Len(conflicts),
   lastSyncTime |-> lastSyncTime, isSyncing |-> isSyncing]

\* ------------------------------------------------------------ environment
\* another client writes the cameras table
ServerChange(id, active) ==
  /\ store[id] # Null
  /\ store' = StoreUpdate(store, id, [is_active |-> active], now)
  /\ notes' = Publish(UpdateNotes(store, store', <<id>>))
  /\ UNCHANGED now

ServerDelete(id) ==
  /\ store[id] # Null
  /\ store' = StoreDelete(store, id)
  /\ notes' = Publish(<<Payload("DELETE", EmptyObj)>>)
  /\ UNCHANGED now

\* the clock advances
Tick(d) ==
  /\ now + d <= MaxTicks
  /\ now' = now + d
  /\ UNCHANGED <<store, notes>>

\* ------------------------------------------------- the engine on its own
\* what callers pass to optimisticUpdate(table, id, updates, operation): a
\* partial row, or a whole row carrying its own updated_at
Updates(t) == {[is_active |-> TRUE], [is_active |-> FALSE, updated_at |-> Iso(t)]}
SyncRecs == {"A"}
SyncInputs(t) == ({"update"} \X Updates(t)) \cup ({"insert", "delete"} \X {[is_active |-> TRUE]})

\* no projector is mounted, no director is at work
NoProjector ==
  /\ notes = <<>>
  /\ subscribed = FALSE
  /\ cameras = <<>>
  /\ projCache = <<>>
  /\ projTasks = <<>>

NoDirector ==
  /\ dirTasks = <<>>
  /\ switched = <<>>
  /\ selectedCameraId = Null

\* private stats of a new RealtimeConnectionManager (lines 25-33)
InitialStats ==
  [connected |-> FALSE, reconnectAttempts |-> 0, lastReconnectTime |-> Null,
   averageLatency |-> 0, messagesReceived |-> 0, messagesLost |-> 0,
   connectionQuality |-> "disconnected"]

\* the transport stays up and no connection manager is running
NoManager ==
  /\ transportUp = TRUE
  /\ stats = InitialStats
  /\ latencyMeasurements = <<>>
  /\ timers = {}
  /\ missed = 0

\* no cache is exercised on its own, and no render is looked at
NoCache ==
  /\ rendered = [pendingUpdates |-> <<>>, isSyncing |-> FALSE]
  /\ ttlCache = <<>>
  /\ lastSet = [k \in CacheKeys |-> NoSet]
  /\ lastOp = NoOp

\* no presence hook is mounted
NoEvents ==
  /\ eventRow = [id |-> "E1", status |-> "scheduled", updated_at |-> 0]
  /\ event = Null
  /\ eventNotes = <<>>
  /\ evTasks = <<>>
  /\ statusReports = <<>>
  /\ transitions = <<>>
  /\ switchLogs = <<>>
  /\ switchNotes = <<>>
  /\ switchCalls = <<>>

NoResolve ==
  /\ conflictEvent = [strategy |-> "none"]
  /\ returned = <<>>

NoPresence ==
  /\ channel = 0
  /\ handlerChannel = 0
  /\ presence = [c \in 1..MaxChannels |-> <<>>]
  /\ presenceState = <<>>
  /\ onlineUsers = <<>>
  /\ delivered = <<>>
  /\ repeated = FALSE
  /\ usersBefore = <<>>
  /\ collaborationIndicators = <<>>
  /\ lastLeave = NoLeave

InitSync ==
  /\ now = 0
  /\ store = [r \in Recs |-> Row(r, FALSE, 0)]
  /\ options \in [conflictResolution : Strategies,
                  enableOptimisticUpdates : BOOLEAN,
                  retryAttempts : {MaxRetryAttempts}]
  /\ cache = <<>>
  /\ pendingUpdates = <<>>
  /\ conflicts = <<>>
  /\ isSyncing = FALSE
  /\ lastSyncTime = Null
  /\ tasks = <<>>
  /\ hist = <<>>
  /\ NoProjector
  /\ NoDirector
  /\ NoManager
  /\ NoPresence
  /\ NoCache
  /\ NoEvents
  /\ NoResolve

\* what the engine on its own leaves alone
idleSync == <<projVars, dirVars, connVars, presVars, cacheVars, flushVars, evVars, resVars>>

NextSync ==
  \/ \E id \in SyncRecs, in \in SyncInputs(now) :
        OptimisticUpdate(id, in[2], in[1]) /\ UNCHANGED idleSync
  \/ \E i \in 1..Len(tasks) : WriteOk(i) /\ UNCHANGED idleSync
  \/ \E i \in 1..Len(tasks) : WriteConflict(i) /\ UNCHANGED idleSync
  \/ \E i \in 1..Len(tasks) : WriteError(i) /\ UNCHANGED idleSync
  \/ \E i \in 1..Len(tasks), found \in BOOLEAN :
        FetchReturns(i, found) /\ UNCHANGED idleSync
  \/ \E i \in 1..Len(tasks) : ApplyOk(i) /\ UNCHANGED idleSync
  \/ \E i \in 1..Len(tasks) : ApplyError(i) /\ UNCHANGED idleSync
  \/ FlushStart /\ UNCHANGED idleSync
  \/ Tick(1) /\ UNCHANGED <<syncVars, idleSync>>

SpecSync == InitSync /\ [][NextSync]_vars

\* ------------------------------------- DirectorDashboard.setActiveCamera
\* every camera of RecSeq belongs to the one event of the dashboard
AllInactive(s, t) ==
  [r \in Recs |-> IF s[r] = Null THEN Null
                  ELSE Spread(s[r], [is_active |-> FALSE, updated_at |-> Iso(t)])]

\* setActiveCamera(cameraId) is called: it issues the deactivate-all update
SetActiveCamera(cameraId) ==
  /\ Len(dirTasks) + Len(switched) < MaxSwitches
  /\ dirTasks' = Append(dirTasks, [cameraId |-> cameraId, pc |-> "deactivate",
                                    deactivated |-> FALSE])
  /\ UNCHANGED <<now, store, notes, switched, selectedCameraId>>

\* lines 71-74 have returned; the result is not looked at.  Lines 77-80 start.
DeactivateReturns(i, ok) ==
  /\ i \in 1..Len(dirTasks) /\ dirTasks[i].pc = "deactivate"
  /\ store' = IF ok THEN AllInactive(store, now) ELSE store
  /\ notes' = IF ok THEN Publish(UpdateNotes(store, store', RecSeq)) ELSE notes
  /\ dirTasks' = [dirTasks EXCEPT ![i].pc = "activate", ![i].deactivated = ok]
  /\ UNCHANGED <<now, switched, selectedCameraId>>

\* lines 77-82 have returned: an error is thrown to the catch of line 96 and
\* the call is over; otherwise the switch-camera function is invoked
ActivateReturns(i, ok) ==
  /\ i \in 1..Len(dirTasks) /\ dirTasks[i].pc = "activate"
  /\ LET c == dirTasks[i].cameraId
     IN IF ok
        THEN /\ store' = StoreUpdate(store, c, [is_active |-> TRUE], now)
             /\ notes' = Publish(UpdateNotes(store, store', <<c>>))
             /\ dirTasks' = [dirTasks EXCEPT ![i].pc = "invoke"]
             /\ UNCHANGED switched
        ELSE /\ dirTasks' = RemoveAt(dirTasks, i)
             /\ switched' = Append(switched, [cameraId |-> c, ok |-> FALSE,
                                               deactivated |-> dirTasks[i].deactivated])
             /\ UNCHANGED <<store, notes>>
  /\ UNCHANGED <<now, selectedCameraId>>

\* lines 85-94: the function call has returned (ok) or thrown (~ok)
InvokeReturns(i, ok) ==
  /\ i \in 1..Len(dirTasks) /\ dirTasks[i].pc \in {"invoke", "invoked"}
  /\ selectedCameraId' = IF ok THEN dirTasks[i].cameraId ELSE selectedCameraId
  /\ dirTasks' = RemoveAt(dirTasks, i)
  /\ switched' = Append(switched, [cameraId |-> dirTasks[i].cameraId, ok |-> ok,
                                    deactivated |-> dirTasks[i].deactivated])
  /\ UNCHANGED <<now, store, notes>>

\* ----------------------------------- useRealtimeEventUpdates (projector)
CamerasKey == <<"cameras", "E1">>

\* select('*').eq('event_id', eventId).order('created_at')
SelectCameras(s) ==
  LET ids == SelectSeq(RecSeq, LAMBDA r : s[r] # Null)
  IN [j \in 1..Len(ids) |-> s[ids[j]]]

\* loadCameras up to its await (lines 248-261): the cached list is shown and
\* the select is sent; payload is the notification that made the call
LoadCamerasStart(payload) ==
  /\ LET cached == CacheGetValue(projCache, CamerasKey, now)
         i == CacheIndex(projCache, CamerasKey)
         found == i # 0 /\ now <= projCache[i].expiresAt
     IN /\ cameras' = IF found THEN cached ELSE cameras
        /\ projCache' = CacheAfterGet(projCache, CamerasKey, now)
  /\ projTasks' = Append(projTasks, [payload |-> payload, data |-> <<>>])

\* the camera channel delivers a postgres_changes payload: handleCameraUpdate
\* calls loadCameras
CameraNotification ==
  /\ notes # <<>>
  /\ LoadCamerasStart(Head(notes))
  /\ notes' = Tail(notes)
  /\ UNCHANGED <<now, store, subscribed>>

\* the server runs the select of loadCameras lines 257-261; the response, yet
\* to arrive, carries the rows of this moment
SelectCamerasRuns(j) ==
  /\ j \in 1..Len(projTasks)
  /\ projTasks[j].data = <<>>
  /\ projTasks' = [projTasks EXCEPT ![j].data = <<SelectCameras(store)>>]
  /\ UNCHANGED <<now, store, notes, subscribed, cameras, projCache>>

\* loadCameras lines 264-275 after the select, then handleCameraUpdate lines
\* 314-318: the payload of an UPDATE is handed to optimisticUpdate.  The
\* rows are those the server read: at SelectCamerasRuns, or now when the
\* select runs as the response leaves.
LoadCamerasReturns(j, ok) ==
  /\ j \in 1..Len(projTasks)
  /\ LET data == IF projTasks[j].data = <<>> THEN SelectCameras(store)
                 ELSE projTasks[j].data[1]
         p == projTasks[j].payload
     IN /\ IF ok
           THEN /\ projCache' = CacheSet(projCache, CamerasKey, data, 0, now,
                                         ProjCacheMaxSize, ProjCacheTTL)
                /\ cameras' = data
           ELSE UNCHANGED <<projCache, cameras>>
        /\ IF p.eventType = "UPDATE"
           THEN OptimisticUpdateCall(p.new.id, p.new, "update")
           ELSE UNCHANGED syncVars
  /\ projTasks' = RemoveAt(projTasks, j)
  /\ UNCHANGED <<now, store, notes, subscribed>>

\* ------------------------------------ a director and a subscribed projector
InitCam ==
  /\ now = 0
  /\ store = [r \in Recs |-> Row(r, r = "B", 0)]
  /\ options = [conflictResolution |-> "last-write-wins",
                enableOptimisticUpdates |-> TRUE, retryAttempts |-> RetryAttempts]
  /\ cache = <<>>
  /\ pendingUpdates = <<>>
  /\ conflicts = <<>>
  /\ isSyncing = FALSE
  /\ lastSyncTime = Null
  /\ tasks = <<>>
  /\ hist = <<>>
  /\ notes = <<>>
  /\ subscribed = TRUE
  /\ cameras = <<>>
  /\ projCache = <<>>
  /\ projTasks = <<>>
  /\ NoDirector
  /\ NoManager
  /\ NoPresence
  /\ NoCache
  /\ NoEvents
  /\ NoResolve

NextCam ==
  \/ \E c \in Recs : SetActiveCamera(c) /\ UNCHANGED <<syncVars, projVars, connVars, presVars, cacheVars, flushVars, evVars, resVars>>
  \/ \E i \in 1..Len(dirTasks), ok \in BOOLEAN :
        DeactivateReturns(i, ok) /\ UNCHANGED <<syncVars, projVars, connVars, presVars, cacheVars, flushVars, evVars, resVars>>
  \/ \E i \in 1..Len(dirTasks), ok \in BOOLEAN :
        ActivateReturns(i, ok) /\ UNCHANGED <<syncVars, projVars, connVars, presVars, cacheVars, flushVars, evVars, resVars>>
  \/ \E i \in 1..Len(dirTasks), ok \in BOOLEAN :
        InvokeReturns(i, ok) /\ UNCHANGED <<syncVars, projVars, connVars, presVars, cacheVars, flushVars, evVars, resVars>>
  \/ CameraNotification /\ UNCHANGED <<syncVars, dirVars, connVars, presVars, cacheVars, flushVars, evVars, resVars>>
  \/ \E j \in 1..Len(projTasks), ok \in BOOLEAN :
        LoadCamerasReturns(j, ok) /\ UNCHANGED <<dirVars, connVars, presVars, cacheVars, flushVars, evVars, resVars>>
  \/ \E i \in 1..Len(tasks) : WriteOk(i) /\ UNCHANGED <<projVars, dirVars, connVars, presVars, cacheVars, flushVars, evVars, resVars>>

SpecCam == InitCam /\ [][NextCam]_vars

\* ------------------------------------------- RealtimeConnectionManager
\* the options the projector constructs its manager with, over the defaults
ConnOptions ==
  [autoReconnect |-> TRUE, maxReconnectAttempts |-> MaxReconnectAttempts,
   reconnectDelay |-> ReconnectDelay, heartbeatInterval |-> HeartbeatInterval]

Timer(kind, due, start) == [kind |-> kind, due |-> due, start |-> start]
TimersOf(kind) == {t \in timers : t.kind = kind}

RECURSIVE Pow2(_)
Pow2(k) == IF k = 0 THEN 1 ELSE 2 * Pow2(k - 1)

\* loadCameras called by an effect, not by a notification
NoPayload == Payload("NONE", EmptyObj)

\* the projector's effect on [stats.connected, stats.reconnectAttempts]
RestoreEffect(st) ==
  IF st.connected /\ st.reconnectAttempts > 0
  THEN LoadCamerasStart(NoPayload)
  ELSE UNCHANGED <<cameras, projCache, projTasks>>

HandleConnectionOpen(st) ==
  [st EXCEPT !.connected = TRUE, !.reconnectAttempts = 0,
             !.connectionQuality = "excellent"]

HandleConnectionClose(st) ==
  [st EXCEPT !.connected = FALSE, !.connectionQuality = "disconnected"]

\* scheduleReconnect: the timeouts it adds; the handle is not kept
ScheduleReconnect(st, t) ==
  {Timer("reconnect", t + ConnOptions.reconnectDelay * Pow2(st.reconnectAttempts), t)}

\* the 5 s poll: checkConnectionHealth.  handleConnectionOpen ends with
\* clearConnectionTimer, whose clearTimeout clears this interval for good.
CheckConnectionHealth(t) ==
  LET next == Timer("poll", t.due + PollInterval, 0)
  IN IF transportUp /\ ~stats.connected
     THEN /\ stats' = HandleConnectionOpen(stats)
          /\ timers' = timers \ {t}
          /\ RestoreEffect(stats')
     ELSE IF ~transportUp /\ stats.connected
     THEN /\ stats' = HandleConnectionClose(stats)
          /\ timers' = ((timers \ {t}) \cup {next}) \cup
                (IF ConnOptions.autoReconnect
                    /\ stats.reconnectAttempts < ConnOptions.maxReconnectAttempts
                 THEN ScheduleReconnect(stats, t.due) ELSE {})
          /\ RestoreEffect(stats')
     ELSE /\ timers' = (timers \ {t}) \cup {next}
          /\ UNCHANGED <<stats, cameras, projCache, projTasks>>

\* the heartbeat: measureLatency joins a test channel and pings itself; with
\* the transport up the ping comes back after l ms
MeasureLatency(t, l) ==
  timers' = ((timers \ {t}) \cup {Timer("heartbeat", t.due + ConnOptions.heartbeatInterval, 0)})
              \cup (IF transportUp THEN {Timer("ping", t.due + l, t.due)} ELSE {})

Sum(s) == LET RECURSIVE S(_)
              S(k) == IF k = 0 THEN 0 ELSE s[k] + S(k - 1)
          IN S(Len(s))

\* push, keeping the last 10
PushLatency(ms, latency) ==
  LET a == Append(ms, latency) IN IF Len(a) > 10 THEN Tail(a) ELSE a

UpdateConnectionQuality(st) ==
  [st EXCEPT !.connectionQuality =
     IF ~st.connected THEN "disconnected"
     ELSE IF st.averageLatency < 100 THEN "excellent"
     ELSE IF st.averageLatency < 300 THEN "good"
     ELSE "poor"]

\* recordLatency; the average is kept rounded down, which compares with the
\* whole thresholds of updateConnectionQuality as the exact average does
RecordLatency(st, ms) ==
  UpdateConnectionQuality([st EXCEPT !.averageLatency = Sum(ms) \div Len(ms)])

\* one pending callback runs; the clock is at its due time
RunTimer(t, l) ==
  /\ t \in timers
  /\ \A u \in timers : t.due <= u.due
  /\ t.due <= MaxTime
  /\ now' = t.due
  /\ CASE t.kind = "poll" ->
            /\ CheckConnectionHealth(t)
            /\ UNCHANGED <<latencyMeasurements, subscribed>>
       [] t.kind = "heartbeat" ->
            /\ MeasureLatency(t, l)
            /\ UNCHANGED <<stats, latencyMeasurements, subscribed,
                           cameras, projCache, projTasks>>
       [] t.kind = "ping" ->
            \* the broadcast handler of measureLatency
            /\ timers' = timers \ {t}
            /\ IF transportUp
               THEN /\ latencyMeasurements' = PushLatency(latencyMeasurements, t.due - t.start)
                    /\ stats' = RecordLatency(stats, latencyMeasurements')
                    /\ RestoreEffect(stats')
               ELSE UNCHANGED <<stats, latencyMeasurements, cameras, projCache, projTasks>>
            /\ UNCHANGED subscribed
       [] t.kind = "reconnect" ->
            \* the timeout of scheduleReconnect; resubscribeAllChannels
            \* removes every registered channel and joins none
            /\ timers' = timers \ {t}
            /\ stats' = [stats EXCEPT !.reconnectAttempts = @ + 1,
                                      !.lastReconnectTime = Num(t.due)]
            /\ subscribed' = FALSE
            /\ RestoreEffect(stats')
            /\ UNCHANGED latencyMeasurements
  /\ UNCHANGED <<store, notes, missed>>

\* the websocket drops / is back
TransportDown ==
  /\ transportUp
  /\ transportUp' = FALSE
  /\ UNCHANGED <<now, store, notes, stats, latencyMeasurements, timers, missed>>

TransportUp ==
  /\ ~transportUp
  /\ transportUp' = TRUE
  /\ UNCHANGED <<now, store, notes, stats, latencyMeasurements, timers, missed>>

\* a director elsewhere switches the camera while this client is cut off:
\* no notification reaches it
MissedSwitch(id) ==
  /\ ~transportUp
  /\ missed < MaxMissed
  /\ store[id] # Null /\ ~store[id].is_active
  /\ store' = StoreUpdate(AllInactive(store, now), id, [is_active |-> TRUE], now)
  /\ notes' = Publish(UpdateNotes(store, store', RecSeq))
  /\ missed' = missed + 1
  /\ UNCHANGED <<now, transportUp, stats, latencyMeasurements, timers>>

\* --------------------------------- a projector with a connection manager
\* after mount: the manager is constructed, the main effect has joined the
\* camera channel and called loadCameras
InitConn ==
  /\ now = 0
  /\ store = [r \in Recs |-> Row(r, r = "B", 0)]
  /\ options = [conflictResolution |-> "last-write-wins",
                enableOptimisticUpdates |-> TRUE, retryAttempts |-> RetryAttempts]
  /\ cache = <<>>
  /\ pendingUpdates = <<>>
  /\ conflicts = <<>>
  /\ isSyncing = FALSE
  /\ lastSyncTime = Null
  /\ tasks = <<>>
  /\ hist = <<>>
  /\ notes = <<>>
  /\ subscribed = TRUE
  /\ cameras = <<>>
  /\ projCache = <<>>
  /\ projTasks = <<[payload |-> NoPayload, data |-> <<>>]>>
  /\ NoDirector
  /\ transportUp \in BOOLEAN
  /\ stats = InitialStats
  /\ latencyMeasurements = <<>>
  /\ timers = {Timer("heartbeat", ConnOptions.heartbeatInterval, 0),
               Timer("poll", PollInterval, 0)}
  /\ missed = 0
  /\ NoPresence
  /\ NoCache
  /\ NoEvents
  /\ NoResolve

NextConn ==
  \/ \E t \in timers, l \in Latencies :
        RunTimer(t, l) /\ UNCHANGED <<syncVars, dirVars, transportUp, presVars, cacheVars, flushVars, evVars, resVars>>
  \/ TransportDown /\ UNCHANGED <<syncVars, projVars, dirVars, presVars, cacheVars, flushVars, evVars, resVars>>
  \/ TransportUp /\ UNCHANGED <<syncVars, projVars, dirVars, presVars, cacheVars, flushVars, evVars, resVars>>
  \/ \E id \in Recs : MissedSwitch(id) /\ UNCHANGED <<syncVars, projVars, dirVars, presVars, cacheVars, flushVars, evVars, resVars>>
  \/ \E j \in 1..Len(projTasks), ok \in BOOLEAN :
        LoadCamerasReturns(j, ok) /\ UNCHANGED <<dirVars, connVars, presVars, cacheVars, flushVars, evVars, resVars>>

SpecConn == InitConn /\ [][NextConn]_vars

\* --------------------------------------------------- useRealtimePresence
\* A presence state (Record<string, PresenceUser[]>) is the sequence of its
\* keys' lists in key order, which is the order of Object.values.
PresenceUser(id, role) == [user_id |-> id, online_at |-> Iso(0), role |-> role]
PresenceLists ==
  {<<PresenceUser("v", "viewer"), PresenceUser("d", "director")>>,
   <<[user_id |-> "n", online_at |-> Iso(0)], PresenceUser("o", "camera_operator")>>,
   <<[user_id |-> "x"], Null, PresenceUser("v", "viewer"), PresenceUser("a", "admin")>>}
PresenceStates ==
  {<<>>} \cup {<<g>> : g \in PresenceLists}
         \cup {<<g, h>> : g \in PresenceLists, h \in PresenceLists}

\* Object.values(newState).flat()
RECURSIVE Flat(_)
Flat(st) == IF st = <<>> THEN <<>> ELSE Head(st) \o Flat(Tail(st))

\* user && typeof user === 'object' && 'user_id' in user && 'online_at' in user
IsPresenceUser(user) ==
  user # Null /\ "user_id" \in DOMAIN user /\ "online_at" \in DOMAIN user

\* rolePriority[user.role || 'viewer'] || 1
RolePriority(user) ==
  LET role == IF "role" \in DOMAIN user /\ user.role # "" THEN user.role ELSE "viewer"
  IN CASE role = "director" -> 3
       [] role = "camera_operator" -> 2
       [] OTHER -> 1

\* users.sort((a, b) => priority(b) - priority(a)): Array.prototype.sort is
\* stable, users of one priority keep their order
SortedUsers(newState) ==
  LET users == SelectSeq(Flat(newState), IsPresenceUser)
  IN SelectSeq(users, LAMBDA u : RolePriority(u) = 3)
       \o SelectSeq(users, LAMBDA u : RolePriority(u) = 2)
       \o SelectSeq(users, LAMBDA u : RolePriority(u) = 1)

SetOnlineUsersAppended(prev, sortedUsers) == prev \o sortedUsers
\* setOnlineUsers(sortedUsers)
SetOnlineUsers(prev, sortedUsers) == sortedUsers

\* the server sends a presence sync with state p to the joined channel, whose
\* 'sync' listener is the handlePresenceSync registered by the effect
PresenceSync(p) ==
  /\ channel # 0
  /\ presence' = [presence EXCEPT ![channel] = p]
  /\ IF handlerChannel = 0
     THEN UNCHANGED <<presenceState, onlineUsers>>
     ELSE LET newState == presence'[handlerChannel]
          IN /\ presenceState' = newState
             /\ onlineUsers' = SetOnlineUsers(onlineUsers, SortedUsers(newState))
  /\ delivered' = <<p>>
  /\ repeated' = (delivered = <<p>>)
  /\ usersBefore' = onlineUsers
  /\ UNCHANGED <<channel, handlerChannel, collaborationIndicators, lastLeave>>

\* setChannel has re-rendered the hook: handlePresenceSync is a new function
\* closed over the channel state, so the channel effect cleans up (the
\* channel is removed; what its presenceState() returns from then on is
\* the library's business: kept or emptied) and runs again with a new channel
ChannelEffect(kept) ==
  /\ channel # 0 /\ channel < MaxChannels
  /\ handlerChannel' = channel
  /\ channel' = channel + 1
  /\ presence' = [c \in 1..MaxChannels |->
                    IF c = channel /\ kept THEN presence[c] ELSE <<>>]
  /\ delivered' = <<>>
  /\ repeated' = FALSE
  /\ usersBefore' = <<>>
  /\ collaborationIndicators' = <<>>
  /\ lastLeave' = NoLeave
  /\ UNCHANGED <<presenceState, onlineUsers>>

\* after mount: the effect has run once, with the handler of the first render
InitPresence ==
  /\ now = 0
  /\ store = [r \in Recs |-> Row(r, r = "B", 0)]
  /\ options = [conflictResolution |-> "last-write-wins",
                enableOptimisticUpdates |-> TRUE, retryAttempts |-> RetryAttempts]
  /\ cache = <<>>
  /\ pendingUpdates = <<>>
  /\ conflicts = <<>>
  /\ isSyncing = FALSE
  /\ lastSyncTime = Null
  /\ tasks = <<>>
  /\ hist = <<>>
  /\ NoProjector
  /\ NoDirector
  /\ NoManager
  /\ channel = 1
  /\ handlerChannel = 0
  /\ presence = [c \in 1..MaxChannels |-> <<>>]
  /\ presenceState = <<>>
  /\ onlineUsers = <<>>
  /\ delivered = <<>>
  /\ repeated = FALSE
  /\ usersBefore = <<>>
  /\ collaborationIndicators = <<>>
  /\ lastLeave = NoLeave
  /\ NoCache
  /\ NoEvents
  /\ NoResolve

idlePresence == <<now, store, notes, syncVars, projVars, dirVars, connVars, cacheVars, flushVars, evVars, resVars>>

NextPresence ==
  \/ \E p \in PresenceStates : PresenceSync(p) /\ UNCHANGED idlePresence
  \/ \E kept \in BOOLEAN : ChannelEffect(kept) /\ UNCHANGED idlePresence

SpecPresence == InitPresence /\ [][NextPresence]_vars

\* ------------------------------- useRealtimePresence: collaboration
CollabUsers == {"d", "v"}
CollabData ==
  {[position |-> "p1", element |-> "e1", focusData |-> "f1", editData |-> "x1"],
   [position |-> "p2", element |-> "e2", focusData |-> "f2", editData |-> "x2"]}
\* payload.type as handleCollaborationEvent reads it: its three cases and a
\* value none of them matches
CollabTypes == {"cursor_move", "element_focus", "element_edit", "broadcast"}
\* leftPresences of a leave event
LeftPresences ==
  LET us == {PresenceUser(u, "viewer") : u \in CollabUsers}
  IN {<<a>> : a \in us} \cup {<<a, b>> : a \in us, b \in us}

\* prev.filter(ind => !(ind.type === type && ind.user_id === user_id))
WithoutIndicator(prev, type, user_id) ==
  SelectSeq(prev, LAMBDA ind : ~(ind.type = type /\ ind.user_id = user_id))

\* handleCollaborationEvent(payload)
HandleCollaborationEvent(type, user_id, data) ==
  /\ channel # 0
  /\ collaborationIndicators' =
       CASE type = "cursor_move" ->
              Append(WithoutIndicator(collaborationIndicators, "cursor", user_id),
                     [type |-> "cursor", user_id |-> user_id,
                      position |-> data.position, element |-> data.element])
         [] type = "element_focus" ->
              Append(WithoutIndicator(collaborationIndicators, "focus", user_id),
                     [type |-> "focus", user_id |-> user_id,
                      element |-> data.element, data |-> data.focusData])
         [] type = "element_edit" ->
              Append(WithoutIndicator(collaborationIndicators, "edit", user_id),
                     [type |-> "edit", user_id |-> user_id,
                      element |-> data.element, data |-> data.editData])
         [] OTHER -> collaborationIndicators
  /\ lastLeave' = NoLeave
  /\ UNCHANGED <<channel, handlerChannel, presence, presenceState, onlineUsers,
                 delivered, repeated, usersBefore>>

IndicatorsAfterFirstLeft(prev, leftPresences) ==
  SelectSeq(prev, LAMBDA ind : leftPresences[1].user_id # ind.user_id)
\* prev.filter(ind => !leftPresences.some(user => user.user_id === ind.user_id))
IndicatorsAfterLeave(prev, leftPresences) ==
  SelectSeq(prev, LAMBDA ind :
    ~(\E k \in 1..Len(leftPresences) : leftPresences[k].user_id = ind.user_id))

\* handlePresenceLeave({ key, leftPresences })
HandlePresenceLeave(leftPresences) ==
  /\ channel # 0
  /\ collaborationIndicators' = IndicatorsAfterLeave(collaborationIndicators, leftPresences)
  /\ lastLeave' = [users |-> {leftPresences[k].user_id : k \in 1..Len(leftPresences)},
                   removed |-> Len(collaborationIndicators) - Len(collaborationIndicators')]
  /\ UNCHANGED <<channel, handlerChannel, presence, presenceState, onlineUsers,
                 delivered, repeated, usersBefore>>

NextCollab ==
  \/ \E type \in CollabTypes, u \in CollabUsers, data \in CollabData :
        HandleCollaborationEvent(type, u, data) /\ UNCHANGED idlePresence
  \/ \E l \in LeftPresences : HandlePresenceLeave(l) /\ UNCHANGED idlePresence
  \/ \E kept \in BOOLEAN : ChannelEffect(kept) /\ UNCHANGED idlePresence

SpecCollab == InitPresence /\ [][NextCollab]_vars

\* ------------------------------------------------ an OptimizedCache
\* cache.set(k, v, ttl) on new OptimizedCache(MaxSize, DefaultTTL)
TtlSet(k, v, ttl) ==
  /\ ttlCache' = CacheSet(ttlCache, k, v, ttl, now, MaxSize, DefaultTTL)
  /\ LET kept == {ttlCache'[i].key : i \in 1..Len(ttlCache')}
         e == ttlCache'[CacheIndex(ttlCache', k)]
     IN lastSet' = [j \in CacheKeys |->
          IF j = k THEN [set |-> TRUE, value |-> v, at |-> now,
                         ttl |-> e.expiresAt - now, evicted |-> FALSE]
          ELSE IF lastSet[j].set /\ CacheIndex(ttlCache, j) # 0 /\ j \notin kept
          THEN [lastSet[j] EXCEPT !.evicted = TRUE]
          ELSE lastSet[j]]
  /\ lastOp' = [op |-> "set", key |-> k,
                evicted |-> IF Len(ttlCache) >= MaxSize
                            THEN <<ttlCache[EvictIndex(ttlCache, now)]>> ELSE <<>>]
  /\ UNCHANGED now

\* cache.get(k)
TtlGet(k) ==
  /\ \A i \in 1..Len(ttlCache) : ttlCache[i].key = k => ttlCache[i].hits < MaxHits
  /\ ttlCache' = CacheAfterGet(ttlCache, k, now)
  /\ lastOp' = [op |-> "get", key |-> k, value |-> CacheGetValue(ttlCache, k, now)]
  /\ UNCHANGED <<now, lastSet>>

\* cache.delete(k)
TtlDelete(k) ==
  /\ ttlCache' = CacheDelete(ttlCache, k)
  /\ lastSet' = [lastSet EXCEPT ![k] = NoSet]
  /\ lastOp' = [op |-> "delete", key |-> k]
  /\ UNCHANGED now

\* cache.clear()
TtlClear ==
  /\ ttlCache' = <<>>
  /\ lastSet' = [k \in CacheKeys |-> NoSet]
  /\ lastOp' = [op |-> "clear"]
  /\ UNCHANGED now

\* Date.now() moves on
CacheTick ==
  /\ now < MaxCacheTime
  /\ now' = now + 1
  /\ lastOp' = NoOp
  /\ UNCHANGED <<ttlCache, lastSet>>

NoEngine ==
  /\ options = [conflictResolution |-> "last-write-wins",
                enableOptimisticUpdates |-> TRUE, retryAttempts |-> RetryAttempts]
  /\ cache = <<>>
  /\ pendingUpdates = <<>>
  /\ conflicts = <<>>
  /\ isSyncing = FALSE
  /\ lastSyncTime = Null
  /\ tasks = <<>>
  /\ hist = <<>>

InitCache ==
  /\ now = 0
  /\ store = [r \in Recs |-> Row(r, FALSE, 0)]
  /\ NoEngine
  /\ NoProjector
  /\ NoDirector
  /\ NoManager
  /\ NoPresence
  /\ NoCache
  /\ NoEvents
  /\ NoResolve

idleCache == <<store, notes, syncVars, projVars, dirVars, connVars, presVars, flushVars, evVars, resVars>>

NextCache ==
  \/ \E k \in CacheKeys, v \in CacheValues, ttl \in CacheTtls :
        TtlSet(k, v, ttl) /\ UNCHANGED idleCache
  \/ \E k \in CacheKeys : TtlGet(k) /\ UNCHANGED idleCache
  \/ \E k \in CacheKeys : TtlDelete(k) /\ UNCHANGED idleCache
  \/ TtlClear /\ UNCHANGED idleCache
  \/ CacheTick /\ UNCHANGED idleCache

SpecCache == InitCache /\ [][NextCache]_vars

\* ------------------------------------- the engine's flush under React
InitFlush ==
  /\ now = 0
  /\ store = [r \in Recs |-> Row(r, FALSE, 0)]
  /\ options = [conflictResolution |-> "last-write-wins",
                enableOptimisticUpdates |-> TRUE, retryAttempts |-> MaxRetryAttempts]
  /\ cache = <<>>
  /\ pendingUpdates = <<>>
  /\ conflicts = <<>>
  /\ isSyncing = FALSE
  /\ lastSyncTime = Null
  /\ tasks = <<>>
  /\ hist = <<>>
  /\ NoProjector
  /\ NoDirector
  /\ NoManager
  /\ NoPresence
  /\ NoCache
  /\ NoEvents
  /\ NoResolve

idleFlush == <<projVars, dirVars, connVars, presVars, cacheVars, evVars, resVars>>

NextFlush ==
  \/ \E id \in SyncRecs :
        /\ OptimisticUpdate(id, [is_active |-> TRUE], "update")
        /\ UNCHANGED <<idleFlush, rendered>>
  \/ \E i \in 1..Len(tasks) : WriteOk(i) /\ UNCHANGED <<idleFlush, rendered>>
  \/ \E i \in 1..Len(tasks) :
        /\ hist[tasks[i].u.n].fails < MaxFails
        /\ WriteError(i)
        /\ UNCHANGED <<idleFlush, rendered>>
  \/ ForcSync /\ UNCHANGED idleFlush
  \/ Render /\ UNCHANGED idleFlush

SpecFlush == InitFlush /\ [][NextFlush]_vars


\* -------------------------------- useRealtimeEventUpdates (the events row)
EventKey == <<"event", "E1">>
Statuses == {"scheduled", "live", "ended"}

\* an UPDATE of the events row on the server; updated_at grows with every
\* update.  The event channel publishes the old and the new row.
UpdateEvent(s) ==
  /\ eventRow.updated_at < MaxEventUpdates
  /\ eventRow' = [eventRow EXCEPT !.status = s, !.updated_at = @ + 1]
  /\ eventNotes' = IF subscribed /\ transportUp
                   THEN Append(eventNotes, [old |-> eventRow, new |-> eventRow',
                                            deliveries |-> 0])
                   ELSE eventNotes
  /\ transitions' = IF s # eventRow.status /\ s \in {"live", "ended"}
                    THEN Append(transitions, s) ELSE transitions
  /\ UNCHANGED <<event, evTasks, statusReports, switchLogs, switchNotes, switchCalls>>

\* lines 299-305: the toast of a status change
StatusToast(oldEvent, updatedEvent) ==
  IF oldEvent.status # updatedEvent.status /\ updatedEvent.status \in {"live", "ended"}
  THEN <<updatedEvent.status>>
  ELSE <<>>

\* handleEventUpdate (lines 278-306); the comparison of lines 283-290 only logs
HandleEventUpdate(payload) ==
  /\ projCache' = CacheSet(projCache, EventKey, payload.new, 0, now,
                           ProjCacheMaxSize, ProjCacheTTL)
  /\ event' = payload.new
  /\ statusReports' = statusReports \o StatusToast(payload.old, payload.new)

\* the event channel delivers the oldest notification; with again the
\* transport will deliver the same notification once more
EventNotification(again) ==
  /\ eventNotes # <<>>
  /\ again => Head(eventNotes).deliveries = 0
  /\ HandleEventUpdate(Head(eventNotes))
  /\ eventNotes' = IF again THEN [eventNotes EXCEPT ![1].deliveries = 1]
                   ELSE Tail(eventNotes)
  /\ UNCHANGED <<eventRow, evTasks, transitions, switchLogs, switchNotes, switchCalls>>

\* loadEventData up to its await (lines 221-234): the re-fetch of the restore
\* effect or of refetch.event
LoadEventDataStart ==
  /\ Len(evTasks) < MaxEvTasks
  /\ \A i \in 1..Len(projCache) : projCache[i].hits < MaxHits
  /\ LET cachedEvent == CacheGetValue(projCache, EventKey, now)
     IN /\ event' = IF cachedEvent # Null THEN cachedEvent ELSE event
        /\ projCache' = CacheAfterGet(projCache, EventKey, now)
  /\ evTasks' = Append(evTasks, [kind |-> "loadEventData"])
  /\ UNCHANGED <<eventRow, eventNotes, statusReports, transitions,
                 switchLogs, switchNotes, switchCalls>>

\* loadEventData lines 236-245 after the select
LoadEventDataReturns(j, ok) ==
  /\ j \in 1..Len(evTasks) /\ evTasks[j].kind = "loadEventData"
  /\ IF ok
     THEN /\ projCache' = CacheSet(projCache, EventKey, eventRow, 0, now,
                                   ProjCacheMaxSize, ProjCacheTTL)
          /\ event' = eventRow
     ELSE UNCHANGED <<projCache, event>>
  /\ evTasks' = RemoveAt(evTasks, j)
  /\ UNCHANGED <<eventRow, eventNotes, statusReports, transitions,
                 switchLogs, switchNotes, switchCalls>>

InitEvent ==
  /\ now = 0
  /\ store = [r \in Recs |-> Row(r, r = "B", 0)]
  /\ notes = <<>>
  /\ NoEngine
  /\ subscribed = TRUE
  /\ cameras = <<>>
  /\ projCache = <<>>
  /\ projTasks = <<>>
  /\ NoDirector
  /\ NoManager
  /\ NoPresence
  /\ NoCache
  /\ NoEvents
  /\ NoResolve

idleEvent == <<now, store, notes, syncVars, dirVars, connVars, presVars, cacheVars,
               flushVars, resVars, subscribed, cameras, projTasks>>

NextEvent ==
  \/ \E s \in Statuses : UpdateEvent(s) /\ UNCHANGED <<idleEvent, projCache>>
  \/ \E again \in BOOLEAN : EventNotification(again) /\ UNCHANGED idleEvent
  \/ LoadEventDataStart /\ UNCHANGED idleEvent
  \/ \E j \in 1..Len(evTasks), ok \in BOOLEAN :
        LoadEventDataReturns(j, ok) /\ UNCHANGED idleEvent

SpecEvent == InitEvent /\ [][NextEvent]_vars


\* ------------------- switch-camera function and the projector's switch channel
CameraKey(c) == <<"camera", c>>
DeviceLabel(c) == <<"label", c>>

\* the switch-camera function, called by line 85 of the director: lines
\* 112-123 insert the switch_logs row (ok) or only log the error (~ok); the
\* switch channel publishes the INSERT
SwitchCameraFunction(i, ok) ==
  /\ i \in 1..Len(dirTasks) /\ dirTasks[i].pc = "invoke"
  /\ dirTasks' = [dirTasks EXCEPT ![i].pc = "invoked"]
  /\ switchLogs' = IF ok
                   THEN Append(switchLogs, [id |-> Len(switchLogs) + 1,
                                            camera_id |-> dirTasks[i].cameraId])
                   ELSE switchLogs
  /\ switchNotes' = IF ok /\ subscribed /\ transportUp
                    THEN Append(switchNotes, [new |-> switchLogs'[Len(switchLogs')]])
                    ELSE switchNotes
  /\ UNCHANGED <<now, store, notes, switched, selectedCameraId, eventRow, event,
                 eventNotes, evTasks, statusReports, transitions, switchCalls>>

\* the labels onCameraSwitch doubly receives
SwitchCallLabelsTwice(camera) ==
  IF camera # Null THEN <<camera.device_label, camera.device_label>> ELSE <<>>

\* lines 339-342: the labels onCameraSwitch is called with
SwitchCallLabels(camera) ==
  IF camera # Null THEN <<camera.device_label>> ELSE <<>>

\* the switch channel delivers an INSERT: handleCameraSwitch up to its await
\* (lines 321-331), or to its end when the label is cached
SwitchNotification ==
  /\ switchNotes # <<>>
  /\ LET payload == Head(switchNotes)
         k == CameraKey(payload.new.camera_id)
         camera == CacheGetValue(projCache, k, now)
     IN /\ projCache' = CacheAfterGet(projCache, k, now)
        /\ IF camera # Null
           THEN /\ switchCalls' = Append(switchCalls,
                                   [row |-> payload.new.id, via |-> "cache",
                                    labels |-> SwitchCallLabels(camera)])
                /\ UNCHANGED evTasks
           ELSE /\ evTasks' = Append(evTasks, [kind |-> "handleCameraSwitch",
                                               payload |-> payload])
                /\ UNCHANGED switchCalls
  /\ switchNotes' = Tail(switchNotes)
  /\ UNCHANGED <<eventRow, event, eventNotes, statusReports, transitions, switchLogs>>

\* handleCameraSwitch lines 333-346 after the select of the label, which
\* returned the row (ok) or no data
HandleCameraSwitchReturns(j, ok) ==
  /\ j \in 1..Len(evTasks) /\ evTasks[j].kind = "handleCameraSwitch"
  /\ LET payload == evTasks[j].payload
         data == IF ok /\ store[payload.new.camera_id] # Null
                 THEN [device_label |-> DeviceLabel(payload.new.camera_id)]
                 ELSE Null
     IN /\ projCache' = IF data # Null
                        THEN CacheSet(projCache, CameraKey(payload.new.camera_id),
                                      data, 0, now, ProjCacheMaxSize, ProjCacheTTL)
                        ELSE projCache
        /\ switchCalls' = Append(switchCalls,
                                [row |-> payload.new.id,
                                 via |-> IF data # Null THEN "fetch" ELSE "none",
                                 labels |-> SwitchCallLabels(data)])
  /\ evTasks' = RemoveAt(evTasks, j)
  /\ UNCHANGED <<eventRow, event, eventNotes, statusReports, transitions,
                 switchLogs, switchNotes>>

idleSwitch == <<syncVars, connVars, presVars, cacheVars, flushVars, resVars>>
idleProjector == <<now, store, notes, subscribed, cameras, projTasks>>

NextSwitch ==
  \/ \E c \in Recs : SetActiveCamera(c) /\ UNCHANGED <<idleSwitch, projVars, evVars>>
  \/ \E i \in 1..Len(dirTasks), ok \in BOOLEAN :
        DeactivateReturns(i, ok) /\ UNCHANGED <<idleSwitch, projVars, evVars>>
  \/ \E i \in 1..Len(dirTasks), ok \in BOOLEAN :
        ActivateReturns(i, ok) /\ UNCHANGED <<idleSwitch, projVars, evVars>>
  \/ \E i \in 1..Len(dirTasks), ok \in BOOLEAN :
        SwitchCameraFunction(i, ok) /\ UNCHANGED <<idleSwitch, projVars>>
  \/ \E i \in 1..Len(dirTasks), ok \in BOOLEAN :
        /\ ok => dirTasks[i].pc = "invoked"
        /\ InvokeReturns(i, ok)
        /\ UNCHANGED <<idleSwitch, projVars, evVars>>
  \/ SwitchNotification /\ UNCHANGED <<idleSwitch, idleProjector, dirVars>>
  \/ \E j \in 1..Len(evTasks), ok \in BOOLEAN :
        HandleCameraSwitchReturns(j, ok) /\ UNCHANGED <<idleSwitch, idleProjector, dirVars>>

SpecSwitch == InitEvent /\ [][NextSwitch]_vars


\* ------------------------------- cameras registered while a projector shows
\* register-camera lines 41-52: the function inserts the camera's row
RegisterCamera(r) ==
  /\ store[r] = Null
  /\ store' = StoreInsert(store, r, EmptyObj, now)
  /\ notes' = Publish(<<Payload("INSERT", store'[r])>>)
  /\ UNCHANGED <<now, subscribed, cameras, projCache, projTasks>>

\* an event without cameras yet; every fetch of the list succeeds
InitReload ==
  /\ now = 0
  /\ store = [r \in Recs |-> Null]
  /\ NoEngine
  /\ notes = <<>>
  /\ subscribed = TRUE
  /\ cameras = <<>>
  /\ projCache = <<>>
  /\ projTasks = <<>>
  /\ NoDirector
  /\ NoManager
  /\ NoPresence
  /\ NoCache
  /\ NoEvents
  /\ NoResolve

idleReload == <<dirVars, connVars, presVars, cacheVars, flushVars, evVars, resVars>>

NextReload ==
  \/ \E r \in Recs : RegisterCamera(r) /\ UNCHANGED <<syncVars, idleReload>>
  \/ CameraNotification /\ UNCHANGED <<syncVars, idleReload>>
  \/ \E j \in 1..Len(projTasks) :
        SelectCamerasRuns(j) /\ UNCHANGED <<syncVars, idleReload>>
  \/ \E j \in 1..Len(projTasks) : LoadCamerasReturns(j, TRUE) /\ UNCHANGED idleReload
  \/ Tick(1) /\ UNCHANGED <<syncVars, projVars, idleReload>>

SpecReload == InitReload /\ [][NextReload]_vars

\* ------------------------------------------- resolveConflict on its own
\* the updated_at / timestamp fields a side of a conflict may carry
TimeFields ==
  {EmptyObj, [updated_at |-> Iso(1)], [updated_at |-> Iso(2)],
   [timestamp |-> Num(1)], [timestamp |-> Num(2)]}
LocalDatas == {Spread([id |-> "A", is_active |-> TRUE], f) : f \in TimeFields}
RemoteDatas == {Spread([id |-> "A", is_active |-> FALSE], f) : f \in TimeFields}

\* resolveConflict(conflict) returns
ResolveCall ==
  /\ returned = <<>>
  /\ returned' = <<ResolveConflict(conflictEvent, now)>>
  /\ UNCHANGED conflictEvent

InitResolve ==
  /\ now = 0
  /\ store = [r \in Recs |-> Row(r, r = "B", 0)]
  /\ notes = <<>>
  /\ NoEngine
  /\ NoProjector
  /\ NoDirector
  /\ NoManager
  /\ NoPresence
  /\ NoCache
  /\ NoEvents
  /\ conflictEvent \in  [table : {"cameras"}, recordId : {"A"}, localData : LocalDatas,
                    remoteData : RemoteDatas, baseData : {Null}, strategy : Strategies]
  /\ returned = <<>>

NextResolve ==
  ResolveCall /\ UNCHANGED <<now, store, notes, syncVars, projVars, dirVars, connVars,
                             presVars, cacheVars, flushVars, evVars>>

SpecResolve == InitResolve /\ [][NextResolve]_vars

\* ---------------------------------------------------- engine properties
\* the changes a PendingUpdate was built from: data is { id, ...updates }
ChangesOf(u) == [f \in (DOMAIN u.data) \ {"id"} |-> u.data[f]]

\* the step is task i's await completing: its frame moved on or left
Stepped(i) ==
  \/ tasks' = RemoveAt(tasks, i)
  \/ Len(tasks') = Len(tasks) /\ tasks'[i] # tasks[i]

Queued(n) == \E j \in 1..Len(pendingUpdates) : pendingUpdates[j].n = n
InFlight(n) == \E j \in 1..Len(tasks) : tasks[j].u.n = n

\* C1: right after the synchronous portion of optimisticUpdate(table, id,
\* changes, 'update'), with the write-through still awaited, cache.get of the
\* record returns the record cached before merged with changes: every field
\* of changes has its new value, every other field its previous value.
C1_OptimisticVisible ==
  [][(Len(hist') = Len(hist) + 1 /\ tasks'[Len(tasks')].u.operation = "update") =>
       LET fr == tasks'[Len(tasks')]
           changes == ChangesOf(fr.u)
           k == CacheKey(fr.u.table, fr.u.data.id)
           before == Obj(CacheGetValue(cache, k, now))
           after == CacheGetValue(cache', k, now')
       IN /\ fr.kind = "opt" /\ fr.ph = "write"
          /\ after # Null
          /\ DOMAIN after = (DOMAIN before) \cup (DOMAIN changes)
          /\ \A f \in DOMAIN changes : after[f] = changes[f]
          /\ \A f \in (DOMAIN before) \ (DOMAIN changes) : after[f] = before[f]]_vars

\* an 'update' is awaiting its write-through; a record was cached before it,
\* one of its fields was changed and another one was not named by the changes
C1_Witness ==
  \E i \in 1..Len(tasks) :
     LET u == tasks[i].u
         got == CacheGetValue(cache, CacheKey(u.table, u.data.id), now)
     IN /\ tasks[i].kind = "opt" /\ tasks[i].ph = "write" /\ u.operation = "update"
        /\ u.originalData # Null
        /\ (DOMAIN u.originalData) \ (DOMAIN ChangesOf(u)) # {}
        /\ \E f \in DOMAIN ChangesOf(u) :
              f \in DOMAIN u.originalData /\ u.originalData[f] # u.data[f]
        /\ got = Spread(u.originalData, ChangesOf(u))

\* C2: when a write-through fails with a conflict-class error, handling it
\* appends a ConflictRecord under user-choice, and under last-write-wins or
\* merge yields a resolved value that is cached or about to be written and
\* cached; the failure is never left without either.
C2_ConflictHandled ==
  [][\A i \in 1..Len(tasks) :
       (IsSync(i, "fetch") /\ Stepped(i)) =>
          LET u == tasks[i].u
              k == CacheKey(u.table, u.data.id)
          IN /\ options.conflictResolution = "user-choice" =>
                  /\ Len(conflicts') = Len(conflicts) + 1
                  /\ conflicts'[Len(conflicts')].localData = u.data
             /\ options.conflictResolution \in {"last-write-wins", "merge"} =>
                  \/ /\ Len(tasks') = Len(tasks)
                     /\ tasks'[i].ph = "apply" /\ tasks'[i].resolved # Null
                  \/ /\ CacheGetValue(cache', k, now') # Null
                     /\ hist'[u.n].fails = hist[u.n].fails]_vars

\* C3: an update whose every write failed is out of the pending queue once it
\* has failed retryAttempts + 1 times and no attempt or flush is under way.
C3_DroppedAfterBudget ==
  \A n \in 1..Len(hist) :
     (/\ ~hist[n].confirmed
      /\ hist[n].fails >= options.retryAttempts + 1
      /\ ~InFlight(n) /\ ~isSyncing) => ~Queued(n)

\* C4: when the last failure of a flush exhausts an update's retry budget and
\* the update is dropped, getSyncStats differs from what it would have been
\* had that write been confirmed.
C4_LossReported ==
  [][\A i \in 1..Len(tasks) :
       (/\ IsSync(i, "write") /\ Stepped(i)
        /\ tasks[i].kind = "flush" /\ tasks[i].queue = <<>>
        /\ tasks[i].u.retryCount >= options.retryAttempts
        /\ hist'[tasks[i].u.n].fails = hist[tasks[i].u.n].fails + 1) =>
          GetSyncStats' # [pendingCount |-> Len(PendingAfterSettled(i, TRUE)),
                           conflictCount |-> Len(conflicts),
                           lastSyncTime |-> now, isSyncing |-> FALSE]]_vars

\* ---------------------------------------------- camera switch properties
Active(s) == {r \in Recs : s[r] # Null /\ s[r].is_active}

\* C5: in every reachable state of the cameras table at most one camera of
\* the event has is_active = true.
C5_AtMostOneActive == Cardinality(Active(store)) <= 1

\* C6: with B active at the start and a subscribed projector, once
\* setActiveCamera(E1, A) has carried out both its writes and returned, and
\* no other setActiveCamera call was made, A is the one active camera.
C6_SwitchEndsWithA ==
  (/\ dirTasks = <<>> /\ Len(switched) = 1
   /\ switched[1].cameraId = "A" /\ switched[1].ok /\ switched[1].deactivated)
  => Active(store) = {"A"}

\* ------------------------------------------------- connection properties
\* nothing is left that would make the projector look at the server again:
\* no select in flight, no health poll and no reconnect timeout pending
AtRest ==
  /\ projTasks = <<>>
  /\ TimersOf("poll") = {}
  /\ TimersOf("reconnect") = {}

\* C7: two camera switches were made while the projector was cut off and it
\* is connected again.  Once nothing is left to run, the camera list it has
\* loaded is the server's list, active camera included.
C7_RefetchOnReconnect ==
  (missed = MaxMissed /\ transportUp /\ stats.connected /\ cameras # <<>> /\ AtRest)
    => cameras = SelectCameras(store)

Count(s, x) == Cardinality({i \in DOMAIN s : s[i] = x})

\* C10: when a presence sync carries the payload of the sync right before
\* it, onlineUsers after it is the list it was before it (same records,
\* same order), and no record is in the list more often than in the
\* presence state the handler read.
C10_SyncTwiceSameList ==
  repeated =>
    /\ onlineUsers = usersBefore
    /\ \A i \in DOMAIN onlineUsers :
         Count(onlineUsers, onlineUsers[i]) = Count(Flat(presenceState), onlineUsers[i])

\* the same payload came twice in a row and the list shows several users
C10_Witness ==
  repeated /\ delivered # <<<<>>>> /\ Len(onlineUsers) >= 3

\* C11: after a leave event is handled, no indicator of a user in its
\* leftPresences remains, and the indicators of all other users are the
\* ones there were, in their order.
C11_LeaveClearsIndicators ==
  [][lastLeave'.users # {} =>
       /\ \A k \in DOMAIN collaborationIndicators' :
            collaborationIndicators'[k].user_id \notin lastLeave'.users
       /\ collaborationIndicators' =
            SelectSeq(collaborationIndicators, LAMBDA ind : ind.user_id \notin lastLeave'.users)
    ]_vars

\* a leave was handled that removed several indicators of its user while
\* indicators of somebody else are still shown
C11_Witness ==
  /\ lastLeave.users # {}
  /\ lastLeave.removed >= 2
  /\ Len(collaborationIndicators) >= 2

\* ------------------------------------------------------- cache properties
\* C12 as stated: after set(k, v, ttl) with no later set or delete of k,
\* get(k) returns v before ttl has elapsed and null after it has elapsed.
C12_GetWithinTtl ==
  (lastOp.op = "get" /\ lastSet[lastOp.key].set) =>
    LET ls == lastSet[lastOp.key]
    IN /\ now < ls.at + ls.ttl => lastOp.value = ls.value
       /\ now > ls.at + ls.ttl => lastOp.value = Null

\* C12 amended: after set(k, v, ttl) with no later set or delete of k and no
\* clear, and while no later set made at capacity has evicted k, get(k)
\* returns v before ttl (the default TTL when ttl is omitted) has elapsed;
\* and it returns null at every time after ttl has elapsed.
C12_GetWithinTtlUnlessEvicted ==
  (lastOp.op = "get" /\ lastSet[lastOp.key].set) =>
    LET ls == lastSet[lastOp.key]
    IN /\ (now < ls.at + ls.ttl /\ ~ls.evicted) => lastOp.value = ls.value
       /\ now > ls.at + ls.ttl => lastOp.value = Null

\* a get of a key that was set, was not evicted and has outlived its ttl
C12_Witness ==
  /\ lastOp.op = "get" /\ lastSet[lastOp.key].set
  /\ ~lastSet[lastOp.key].evicted
  /\ now > lastSet[lastOp.key].at + lastSet[lastOp.key].ttl
  /\ lastOp.value = Null

FlushWrites == {i \in 1..Len(tasks) : tasks[i].kind = "flush"}

\* C14: no PendingUpdate has two write submissions of the flush path in
\* flight at once, whenever forcSync or the timer runs syncPendingUpdates.
C14_OneFlushSubmission ==
  \A i \in FlushWrites, j \in FlushWrites :
    tasks[i].u.id = tasks[j].u.id => i = j

\* C17: a PendingUpdate leaves the pending queue only in a step after which
\* its write is confirmed (or has become a recorded conflict) or its writes
\* have failed retryAttempts + 1 times, however optimisticUpdate calls and
\* flushes interleave (updates whose id is shared by another call of the same
\* millisecond are left aside).
C17_LeavesOnlySettled ==
  [][\A j \in 1..Len(pendingUpdates) :
       (/\ MapIndex(pendingUpdates', pendingUpdates[j].id) = 0
        /\ \A i \in 1..Len(tasks) :
              tasks[i].u.id = pendingUpdates[j].id
                 => tasks[i].u.n = pendingUpdates[j].n) =>
          \/ hist'[pendingUpdates[j].n].confirmed
          \/ hist'[pendingUpdates[j].n].fails >= options.retryAttempts + 1]_vars

IsPrefix(a, b) == Len(a) <= Len(b) /\ \A i \in 1..Len(a) : a[i] = b[i]

\* C15: the status changes reported (streamStarted / streamEnded) are, in
\* order, the transitions of the row to 'live' or 'ended', each reported at
\* most once, and all of them once no notification is on its way, also when
\* a notification is delivered twice or the row is re-fetched.
C15_StatusReportedOnce ==
  /\ IsPrefix(statusReports, transitions)
  /\ eventNotes = <<>> => statusReports = transitions

CallsFor(row) == {h \in 1..Len(switchCalls) : switchCalls[h].row = row}
SwitchInFlight(row) ==
  \/ \E n \in 1..Len(switchNotes) : switchNotes[n].new.id = row
  \/ \E j \in 1..Len(evTasks) : evTasks[j].payload.new.id = row
LabelCalls(c) ==
  Count([h \in 1..Len(switchCalls) |-> switchCalls[h].labels],
        <<DeviceLabel(c)>>)

C18_OlderResultKeepsNewer ==
  [][\A i \in 1..Len(tasks), j \in 1..Len(pendingUpdates) :
       LET u == tasks[i].u
           v == pendingUpdates[j]
           k == CacheKey(u.table, u.data.id)
           before == CacheGetValue(cache, k, now)
           after == CacheGetValue(cache', k, now)
       IN (/\ tasks[i].ph \in {"fetch", "apply"}
           /\ hist'[u.n].confirmed /\ ~hist[u.n].confirmed
           /\ v.n > u.n /\ v.operation = "update" /\ v.data.id = u.data.id
           /\ before # Null
           /\ \A f \in DOMAIN v.data \ {"id"} :
                 f \in DOMAIN before /\ before[f] = v.data[f])
          => after = before]_vars

\* C20: whenever the transport is down while the stats still say connected,
\* the health poll that is to detect the loss is pending.
C20_PollWatchesOpenConnection ==
  (~transportUp /\ stats.connected) => TimersOf("poll") # {}

\* ------------------------------------------------- eviction order properties
\* C21: when a set has evicted an entry, no entry it kept with the same hit
\* count is older than the evicted one, and no entry it kept of the same age
\* has fewer hits (entries set in the millisecond of the evicting set, whose
\* age is 0, are left aside).
C21_OldestLeastUsedFirst ==
  (lastOp.op = "set" /\ lastOp.evicted # <<>>) =>
     \A n \in 1..Len(ttlCache) :
        (/\ ttlCache[n].key # lastOp.key
         /\ ttlCache[n].timestamp < now /\ lastOp.evicted[1].timestamp < now) =>
           /\ ttlCache[n].hits = lastOp.evicted[1].hits
                 => lastOp.evicted[1].timestamp <= ttlCache[n].timestamp
           /\ ttlCache[n].timestamp = lastOp.evicted[1].timestamp
                 => lastOp.evicted[1].hits <= ttlCache[n].hits

\* C22: the cache never holds more than maxSize entries, and a set of a key
\* that is stored (has, which only reads, changes nothing) leaves every
\* other stored key in the cache.
C22_BoundedAndOverwriteKeeps ==
  [][/\ Len(ttlCache') <= MaxSize
     /\ (lastOp'.op = "set" /\ CacheIndex(ttlCache, lastOp'.key) # 0) =>
           \A n \in 1..Len(ttlCache) : CacheIndex(ttlCache', ttlCache[n].key) # 0
    ]_vars

\* ----------------------------------------------- connection quality property
\* C23: connectionQuality is 'disconnected' exactly when connected is false,
\* and when connected it is the grade of averageLatency: 'excellent' below
\* 100, 'good' below 300, 'poor' otherwise.
C23_QualityGradesLatency ==
  /\ (stats.connectionQuality = "disconnected") <=> ~stats.connected
  /\ stats.connected =>
        stats.connectionQuality =
           IF stats.averageLatency < 100 THEN "excellent"
           ELSE IF stats.averageLatency < 300 THEN "good"
           ELSE "poor"

\* ------------------------------------------------ stale indicator property
\* C25: in the step that follows the handling of a leave of user u on the
\* same channel (no join of u has come in between), whatever event it
\* delivers, no collaboration indicator of u is held.
C25_NoIndicatorAfterLeave ==
  [][\A u \in lastLeave.users :
        channel' = channel =>
           \A k \in DOMAIN collaborationIndicators' :
              collaborationIndicators'[k].user_id # u
    ]_vars

\* ------------------------------------------- optimistic insert and delete
\* C26: right after optimisticUpdate with operation 'insert' the cache
\* returns the inserted fields for the record's key, and right after
\* operation 'delete' it returns null.
C26_InsertDeleteVisible ==
  [][Len(hist') = Len(hist) + 1 =>
       LET fr == tasks'[Len(tasks')]
           changes == ChangesOf(fr.u)
           after == CacheGetValue(cache', CacheKey(fr.u.table, fr.u.data.id), now')
       IN /\ fr.u.operation = "insert" =>
               /\ after # Null
               /\ \A f \in DOMAIN changes : f \in DOMAIN after /\ after[f] = changes[f]
          /\ fr.u.operation = "delete" => after = Null]_vars

\* --------------------------------------------------- last-write-wins property
\* the time a side carries, read as resolveConflict reads it; none when it
\* carries neither field
StampOf(d) ==
  IF "updated_at" \in DOMAIN d THEN d.updated_at
  ELSE IF "timestamp" \in DOMAIN d THEN d.timestamp
  ELSE <<"none", 0>>

ReloadsDone == notes = <<>> /\ projTasks = <<>> /\ tasks = <<>>

\* C28: once camera notifications have stopped and every fetch of the camera
\* list has returned, the list the projector shows is the list of the store,
\* in whatever order the responses came back.
C28_ReloadsEndWithStoreList == ReloadsDone => cameras = SelectCameras(store)

\* C29: handling a camera UPDATE notification makes no write to the cameras
\* table: the table changes, and a notification is published, only in a
\* step of the director's own writes.  So the notifications of finitely
\* many director writes run out, and no row a notification carried is
\* written over the row the store holds.
C29_OnlyDirectorWrites ==
  [][(store' # store \/ Len(notes') > Len(notes)) => dirTasks' # dirTasks]_vars

\* C30: with eventId, userId and userProfile unchanged, the channel the
\* presence hook created at its attach stays: no step removes it and puts
\* another channel in its place.
C30_ChannelStaysAfterAttach == [][channel' = channel]_vars

====
